---- MODULE Spec2Model ----
(***************************************************************************)
(* Tag-file data model of bagr (src/src/bagit/tag.rs): Tag, TagList, the   *)
(* tag-file codec, BagDeclaration and BagInfo.                             *)
(*                                                                         *)
(* A Rust string is a sequence of characters; a character is a one-element *)
(* TLA+ string ("a", ":", " ") or one of the named control characters TAB, *)
(* CR, LF.  XFF stands for a byte that is not valid UTF-8.                 *)
(***************************************************************************)
EXTENDS Integers, Sequences, FiniteSets, TLC

VARIABLES
    tags,    \* the TagList owned by the BagInfo (BagInfo.tags)
    last,    \* record of the most recent call and what it returned
    before,  \* history: the successful add_tag call that directly preceded
             \* `last` on a case-insensitively equal label, else NoCall
    file,    \* content of the tag file on disk, or NoFile
    decl,    \* the BagDeclaration object, or NoDecl
    args,    \* the call (operation and arguments) a caller is about to make
             \* on a function that keeps no state, or NoCall
    calls    \* number of calls made on the BagInfo since it was constructed

vars == <<tags, last, before, file, decl, args, calls>>

\* ---------------------------------------------------------------- bounds

MaxCalls == 2
MaxLabelLen == 3
MaxValueLen == 1
MaxLineLen == 4
MaxFileLines == 3
MaxFileTags == 2
MaxFileLabelLen == 2
MaxFileValueLen == 1
MaxDeclTags == 3

\* ------------------------------------------------------------ characters

TAB == "TAB"
CR == "CR"
LF == "LF"
XFF == "xFF"

UpperCase ==
    <<"A","B","C","D","E","F","G","H","I","J","K","L","M",
      "N","O","P","Q","R","S","T","U","V","W","X","Y","Z">>

LowerCase ==
    <<"a","b","c","d","e","f","g","h","i","j","k","l","m",
      "n","o","p","q","r","s","t","u","v","w","x","y","z">>

AsciiLower ==
    [c \in { UpperCase[i] : i \in 1..Len(UpperCase) } |->
        LowerCase[CHOOSE i \in 1..Len(UpperCase) : UpperCase[i] = c]]

\* u8::to_ascii_lowercase: only A..Z are folded
to_ascii_lowercase(c) == IF c \in DOMAIN AsciiLower THEN AsciiLower[c] ELSE c

\* str::eq_ignore_ascii_case: same length and bytewise equal after folding
eq_ignore_ascii_case(a, b) ==
    /\ Len(a) = Len(b)
    /\ \A i \in 1..Len(a) : to_ascii_lowercase(a[i]) = to_ascii_lowercase(b[i])

\* crate::bagit::io::is_space_or_tab
is_space_or_tab(c) == c = " " \/ c = TAB

is_cr_or_lf(c) == c = CR \/ c = LF

\* str::starts_with(is_space_or_tab) / ends_with(is_space_or_tab)
starts_with_space_or_tab(s) == Len(s) > 0 /\ is_space_or_tab(s[1])

ends_with_space_or_tab(s) == Len(s) > 0 /\ is_space_or_tab(s[Len(s)])

\* str::contains(|c| c == CR || c == LF)
contains_cr_or_lf(s) == \E i \in 1..Len(s) : is_cr_or_lf(s[i])

\* all strings of at most n characters over alphabet A
Strings(A, n) == UNION { [1..k -> A] : k \in 0..n }

\* ------------------------------------------------------------- constants

BAGIT_TXT == "bagit.txt"

BAG_INFO_TXT == "bag-info.txt"


LABEL_BAGIT_VERSION ==
    <<"B","a","g","I","t","-","V","e","r","s","i","o","n">>

LABEL_FILE_ENCODING ==
    <<"T","a","g","-","F","i","l","e","-","C","h","a","r","a","c","t","e","r","-","E","n","c","o","d","i","n","g">>

LABEL_BAGGING_DATE ==
    <<"B","a","g","g","i","n","g","-","D","a","t","e">>

LABEL_PAYLOAD_OXUM ==
    <<"P","a","y","l","o","a","d","-","O","x","u","m">>

LABEL_SOFTWARE_AGENT ==
    <<"S","o","f","t","w","a","r","e","-","A","g","e","n","t">>

LABEL_SOURCE_ORGANIZATION ==
    <<"S","o","u","r","c","e","-","O","r","g","a","n","i","z","a","t","i","o","n">>

LABEL_ORGANIZATION_ADDRESS ==
    <<"O","r","g","a","n","i","z","a","t","i","o","n","-","A","d","d","r","e","s","s">>

LABEL_CONTACT_NAME ==
    <<"C","o","n","t","a","c","t","-","N","a","m","e">>

LABEL_CONTACT_PHONE ==
    <<"C","o","n","t","a","c","t","-","P","h","o","n","e">>

LABEL_CONTACT_EMAIL ==
    <<"C","o","n","t","a","c","t","-","E","m","a","i","l">>

LABEL_EXTERNAL_DESCRIPTION ==
    <<"E","x","t","e","r","n","a","l","-","D","e","s","c","r","i","p","t","i","o","n">>

LABEL_EXTERNAL_IDENTIFIER ==
    <<"E","x","t","e","r","n","a","l","-","I","d","e","n","t","i","f","i","e","r">>

LABEL_BAG_SIZE ==
    <<"B","a","g","-","S","i","z","e">>

LABEL_BAG_GROUP_IDENTIFIER ==
    <<"B","a","g","-","G","r","o","u","p","-","I","d","e","n","t","i","f","i","e","r">>

LABEL_BAG_COUNT ==
    <<"B","a","g","-","C","o","u","n","t">>

LABEL_INTERNAL_SENDER_IDENTIFIER ==
    <<"I","n","t","e","r","n","a","l","-","S","e","n","d","e","r","-","I","d","e","n","t","i","f","i","e","r">>

LABEL_INTERNAL_SENDER_DESCRIPTION ==
    <<"I","n","t","e","r","n","a","l","-","S","e","n","d","e","r","-","D","e","s","c","r","i","p","t","i","o","n">>

LABEL_BAGIT_PROFILE_IDENTIFIER ==
    <<"B","a","g","I","t","-","P","r","o","f","i","l","e","-","I","d","e","n","t","i","f","i","e","r">>

UTF_8 ==
    <<"U","T","F","-","8">>

\* --------------------------------------------------------------- results

Ok(v) == [ok |-> TRUE, val |-> v]

Err(e) == [ok |-> FALSE, err |-> e]

Unit == "()"

None == [some |-> FALSE]

Some(v) == [some |-> TRUE, val |-> v]

InvalidTag(label, details) ==
    [type |-> "InvalidTag", label |-> label, details |-> details]

InvalidTagLine(details) ==
    [type |-> "InvalidTagLine", details |-> details]

InvalidTagLineWithRef(details, path, num) ==
    [type |-> "InvalidTagLineWithRef", details |-> details,
     path |-> path, num |-> num]

MissingTag(tag) == [type |-> "MissingTag", tag |-> tag]

UnsupportedVersion(version) ==
    [type |-> "UnsupportedVersion", version |-> version]

UnsupportedEncoding(encoding) ==
    [type |-> "UnsupportedEncoding", encoding |-> encoding]

NoCall == [op |-> "none"]

NoFile == [exists |-> FALSE]

NoDecl == [exists |-> FALSE]

\* ------------------------------------------------------------------- Tag

Tag(label, value) == [label |-> label, value |-> value]

validate_label_NoEndCheck(label) ==
    IF starts_with_space_or_tab(label)
    THEN Err(InvalidTag(label, "Label must not start or end with whitespace"))
    ELSE IF contains_cr_or_lf(label)
    THEN Err(InvalidTag(label, "Label must not contain CR or LF characters"))
    ELSE Ok(Unit)

validate_label(label) ==
    IF starts_with_space_or_tab(label) \/ ends_with_space_or_tab(label)
    THEN Err(InvalidTag(label, "Label must not start or end with whitespace"))
    ELSE IF contains_cr_or_lf(label)
    THEN Err(InvalidTag(label, "Label must not contain CR or LF characters"))
    ELSE Ok(Unit)

validate_value(label, value) ==
    IF contains_cr_or_lf(value)
    THEN Err(InvalidTag(label, "Value must not contain CR or LF characters"))
    ELSE Ok(Unit)

\* Tag::new: validate the label, then the value, then build the tag
Tag_new(label, value) ==
    IF ~validate_label(label).ok THEN validate_label(label)
    ELSE IF ~validate_value(label, value).ok THEN validate_value(label, value)
    ELSE Ok(Tag(label, value))

\* ----------------------------------------------------------------- codec

RECURSIVE find_char(_, _, _)
\* index of the first occurrence of c in s at or after position i, 0 if none
find_char(s, c, i) ==
    IF i > Len(s) THEN 0
    ELSE IF s[i] = c THEN i
    ELSE find_char(s, c, i + 1)

\* str::split_once(':'): None, or the text before and after the first colon
split_once(line, c) ==
    LET i == find_char(line, c, 1)
    IN  IF i = 0 THEN None
        ELSE Some(<<SubSeq(line, 1, i - 1), SubSeq(line, i + 1, Len(line))>>)

parse_tag_line_NoTrim(line) ==
    LET parts == split_once(line, ":")
    IN  IF parts.some
        THEN IF ~starts_with_space_or_tab(parts.val[2])
             THEN Err(InvalidTagLine(
                      "Value part must start with one whitespace character"))
             ELSE Tag_new(parts.val[1], parts.val[2])
        ELSE Err(InvalidTagLine("Missing colon separating the label and value"))

parse_tag_line(line) ==
    LET parts == split_once(line, ":")
    IN  IF parts.some
        THEN IF ~starts_with_space_or_tab(parts.val[2])
             THEN Err(InvalidTagLine(
                      "Value part must start with one whitespace character"))
             ELSE Tag_new(parts.val[1],
                          SubSeq(parts.val[2], 2, Len(parts.val[2])))
        ELSE Err(InvalidTagLine("Missing colon separating the label and value"))

\* ------------------------------------------------------------- tag files

\* writeln!(writer, "{}: {}", tag.label, tag.value)
tag_line(tag) == tag.label \o <<":", " ">> \o tag.value \o <<LF>>

RECURSIVE write_lines(_, _)
write_lines(list, i) ==
    IF i > Len(list) THEN <<>>
    ELSE tag_line(list[i]) \o write_lines(list, i + 1)

\* write_tag_file: the bytes the file holds after a successful write
write_tag_file(list) == [exists |-> TRUE, bytes |-> write_lines(list, 1)]

ReaderError == [type |-> "Io"]

\* one item of the line reader: the decoded line (a CR before the line
\* break dropped), or the reader's own error when the bytes do not decode
reader_item(raw) ==
    IF \E i \in 1..Len(raw) : raw[i] = XFF THEN Err(ReaderError)
    ELSE IF Len(raw) > 0 /\ raw[Len(raw)] = CR
    THEN Ok(SubSeq(raw, 1, Len(raw) - 1))
    ELSE Ok(raw)

RECURSIVE TagLineReader(_, _)
\* the items the line reader yields for the bytes from position i on
TagLineReader(bytes, i) ==
    IF i > Len(bytes) THEN <<>>
    ELSE LET j == find_char(bytes, LF, i)
         IN  IF j = 0 THEN <<reader_item(SubSeq(bytes, i, Len(bytes)))>>
             ELSE <<reader_item(SubSeq(bytes, i, j - 1))>>
                  \o TagLineReader(bytes, j + 1)

IoRead(path) == [type |-> "IoRead", path |-> path]

RECURSIVE read_lines(_, _, _, _, _)
\* the `for line in reader` loop of read_tag_file from item i on; `parsed`
\* counts the lines handed to parse_tag_line
read_lines(path, items, i, list, tag_num) ==
    IF i > Len(items) THEN [res |-> Ok(list), parsed |-> tag_num]
    ELSE IF ~items[i].ok THEN [res |-> Err(items[i].err), parsed |-> tag_num]
    ELSE LET num == tag_num + 1
             r == parse_tag_line(items[i].val)
         IN  IF r.ok THEN read_lines(path, items, i + 1, Append(list, r.val), num)
             ELSE [res |-> Err(InvalidTagLineWithRef(r.err.details, path, num)),
                   parsed |-> num]

read_tag_file(path, f) ==
    IF ~f.exists THEN [res |-> Err(IoRead(path)), parsed |-> 0]
    ELSE read_lines(path, TagLineReader(f.bytes, 1), 1, <<>>, 0)

\* --------------------------------------------------------------- TagList

TagList_new == <<>>

TagList_with_capacity(capacity) == <<>>

RECURSIVE find_tag(_, _, _)
\* Iterator::find over tags.iter(): the first tag from position i on whose
\* label matches
find_tag(list, label, i) ==
    IF i > Len(list) THEN None
    ELSE IF eq_ignore_ascii_case(list[i].label, label) THEN Some(list[i])
    ELSE find_tag(list, label, i + 1)

RECURSIVE filter_tags(_, _, _)
\* Iterator::filter over tags.iter(), collected in iteration order
filter_tags(list, label, i) ==
    IF i > Len(list) THEN <<>>
    ELSE IF eq_ignore_ascii_case(list[i].label, label)
    THEN <<list[i]>> \o filter_tags(list, label, i + 1)
    ELSE filter_tags(list, label, i + 1)

TagList_get_tags_CaseSensitive(list, label) ==
    SelectSeq(list, LAMBDA tag : tag.label = label)

TagList_get_tags(list, label) == filter_tags(list, label, 1)

TagList_get_tag(list, label) == find_tag(list, label, 1)

TagList_add(list, tag) == Append(list, tag)

\* TagList::add_tag: the list afterwards and the Result returned
TagList_add_tag(list, label, value) ==
    LET r == Tag_new(label, value)
    IN  IF r.ok THEN [tags |-> TagList_add(list, r.val), res |-> Ok(Unit)]
        ELSE [tags |-> list, res |-> r]

RECURSIVE retain_tags(_, _, _)
\* Vec::retain(|e| !e.label.eq_ignore_ascii_case(label))
retain_tags(list, label, i) ==
    IF i > Len(list) THEN <<>>
    ELSE IF ~eq_ignore_ascii_case(list[i].label, label)
    THEN <<list[i]>> \o retain_tags(list, label, i + 1)
    ELSE retain_tags(list, label, i + 1)

TagList_remove_tags(list, label) == retain_tags(list, label, 1)

\* -------------------------------------------------------- BagDeclaration

BagItVersion_new(major, minor) == [major |-> major, minor |-> minor]

BAGIT_1_0 == BagItVersion_new(1, 0)

BAGIT_DEFAULT_VERSION == BAGIT_1_0

Digits == <<"0","1","2","3","4","5","6","7","8","9">>

is_digit(c) == \E i \in 1..Len(Digits) : Digits[i] = c

digit_value(c) == (CHOOSE i \in 1..Len(Digits) : Digits[i] = c) - 1

RECURSIVE parse_number(_, _, _)
\* decimal value of the digits of s from position i on, acc so far
parse_number(s, i, acc) ==
    IF i > Len(s) THEN acc
    ELSE parse_number(s, i + 1, acc * 10 + digit_value(s[i]))

is_u8(s) ==
    /\ Len(s) > 0
    /\ \A i \in 1..Len(s) : is_digit(s[i])
    /\ parse_number(s, 1, 0) < 256

InvalidBagItVersion(value) == [type |-> "InvalidBagItVersion", value |-> value]

\* BagItVersion::try_from(&String): "<major>.<minor>"
BagItVersion_try_from(value) ==
    LET parts == split_once(value, ".")
    IN  IF parts.some /\ is_u8(parts.val[1]) /\ is_u8(parts.val[2])
        THEN Ok(BagItVersion_new(parse_number(parts.val[1], 1, 0),
                                 parse_number(parts.val[2], 1, 0)))
        ELSE Err(InvalidBagItVersion(value))

RECURSIVE format_number(_)
format_number(n) ==
    IF n < 10 THEN <<Digits[n + 1]>>
    ELSE format_number(n \div 10) \o <<Digits[(n % 10) + 1]>>

\* BagItVersion's Display: "<major>.<minor>"
BagItVersion_to_string(version) ==
    format_number(version.major) \o <<".">> \o format_number(version.minor)

BagDeclaration_new == [version |-> BAGIT_DEFAULT_VERSION, encoding |-> UTF_8]

BagDeclaration_default == BagDeclaration_new

BagDeclaration_with_values_NoEncodingCheck(version, encoding) ==
    IF BAGIT_1_0 # version THEN Err(UnsupportedVersion(version))
    ELSE Ok([version |-> version, encoding |-> encoding])

BagDeclaration_with_values(version, encoding) ==
    IF BAGIT_1_0 # version THEN Err(UnsupportedVersion(version))
    ELSE IF UTF_8 # encoding THEN Err(UnsupportedEncoding(encoding))
    ELSE Ok([version |-> version, encoding |-> encoding])

\* to_tags: the two add_tag calls, each unwrapped
BagDeclaration_to_tags(d) ==
    LET r1 == TagList_add_tag(TagList_with_capacity(2), LABEL_BAGIT_VERSION,
                              BagItVersion_to_string(d.version))
        r2 == TagList_add_tag(r1.tags, LABEL_FILE_ENCODING, d.encoding)
    IN  IF ~r1.res.ok \/ ~r2.res.ok THEN [panic |-> TRUE]
        ELSE [panic |-> FALSE, val |-> r2.tags]

\* impl TryFrom<TagList> for BagDeclaration
BagDeclaration_try_from(list) ==
    LET version_tag == TagList_get_tag(list, LABEL_BAGIT_VERSION)
        encoding_tag == TagList_get_tag(list, LABEL_FILE_ENCODING)
    IN  IF ~version_tag.some THEN Err(MissingTag(LABEL_BAGIT_VERSION))
        ELSE IF ~BagItVersion_try_from(version_tag.val.value).ok
        THEN BagItVersion_try_from(version_tag.val.value)
        ELSE IF ~encoding_tag.some THEN Err(MissingTag(LABEL_FILE_ENCODING))
        ELSE BagDeclaration_with_values(
                 BagItVersion_try_from(version_tag.val.value).val,
                 encoding_tag.val.value)

\* read_bag_declaration: read bagit.txt, then tags.try_into()
read_bag_declaration(f) ==
    LET r == read_tag_file(BAGIT_TXT, f).res
    IN  IF r.ok THEN BagDeclaration_try_from(r.val) ELSE r

\* --------------------------------------------------------------- BagInfo

\* the reserved bag-info labels and whether each may repeat
LABEL_REPEATABLE ==
    << <<LABEL_SOURCE_ORGANIZATION, TRUE>>,
       <<LABEL_ORGANIZATION_ADDRESS, TRUE>>,
       <<LABEL_CONTACT_NAME, TRUE>>,
       <<LABEL_CONTACT_PHONE, TRUE>>,
       <<LABEL_CONTACT_EMAIL, TRUE>>,
       <<LABEL_EXTERNAL_DESCRIPTION, TRUE>>,
       <<LABEL_BAGGING_DATE, FALSE>>,
       <<LABEL_EXTERNAL_IDENTIFIER, TRUE>>,
       <<LABEL_PAYLOAD_OXUM, FALSE>>,
       <<LABEL_BAG_SIZE, FALSE>>,
       <<LABEL_BAG_GROUP_IDENTIFIER, FALSE>>,
       <<LABEL_BAG_COUNT, FALSE>>,
       <<LABEL_INTERNAL_SENDER_IDENTIFIER, TRUE>>,
       <<LABEL_INTERNAL_SENDER_DESCRIPTION, TRUE>>,
       <<LABEL_BAGIT_PROFILE_IDENTIFIER, TRUE>>,
       <<LABEL_SOFTWARE_AGENT, FALSE>> >>

BagInfo_new == TagList_new

BagInfo_with_capacity(capacity) == TagList_with_capacity(capacity)

BagInfo_with_tags(list) == list

\* read_bag_info: read bag-info.txt, then tags.into()
read_bag_info(f) ==
    LET r == read_tag_file(BAG_INFO_TXT, f).res
    IN  IF r.ok THEN Ok(BagInfo_with_tags(r.val)) ELSE r

add_repeatable_Removing(list, label, value) ==
    TagList_add_tag(TagList_remove_tags(list, label), label, value)

\* add_repeatable: the list afterwards and the Result returned
add_repeatable(list, label, value) == TagList_add_tag(list, label, value)

add_non_repeatable_NoRemove(list, label, value) ==
    TagList_add_tag(list, label, value)

add_non_repeatable(list, label, value) ==
    TagList_add_tag(TagList_remove_tags(list, label), label, value)

RECURSIVE find_repeatable(_, _)
\* LABEL_REPEATABLE.iter().find(..).map(..).unwrap_or(true)
find_repeatable(label, i) ==
    IF i > Len(LABEL_REPEATABLE) THEN TRUE
    ELSE IF eq_ignore_ascii_case(LABEL_REPEATABLE[i][1], label)
    THEN LABEL_REPEATABLE[i][2]
    ELSE find_repeatable(label, i + 1)

BagInfo_add_tag(list, label, value) ==
    IF find_repeatable(label, 1) THEN add_repeatable(list, label, value)
    ELSE add_non_repeatable(list, label, value)

BagInfo_get_tag(list, label) == TagList_get_tag(list, label)

BagInfo_get_tags(list, label) == TagList_get_tags(list, label)

\* ----------------------------------------------------------- input pools

lower(s) == [i \in 1..Len(s) |-> to_ascii_lowercase(s[i])]

\* all sequences of at most n elements of S
SeqsUpTo(S, n) == UNION { [1..k -> S] : k \in 0..n }

RECURSIVE concat(_, _)
concat(seqs, i) == IF i > Len(seqs) THEN <<>> ELSE seqs[i] \o concat(seqs, i + 1)

Values == { <<"1">>, <<"2">>, <<LF>> }

TypedValues == { <<"1">>, <<LF>> }

AddLabels ==
    { LABEL_BAGGING_DATE, lower(LABEL_BAGGING_DATE),
      LABEL_CONTACT_NAME, lower(LABEL_CONTACT_NAME),
      <<"X">>, <<" ", "X">> }

LookupLabels ==
    { lower(LABEL_BAGGING_DATE), LABEL_CONTACT_NAME, <<"X">>, <<"Y">> }

\* tag lists a caller may hand to with_tags, or find in bag-info.txt
InitTagLists ==
    LET bd1 == Tag(LABEL_BAGGING_DATE, <<"1">>)
        bd2 == Tag(lower(LABEL_BAGGING_DATE), <<"2">>)
        cn1 == Tag(LABEL_CONTACT_NAME, <<"1">>)
        cn2 == Tag(lower(LABEL_CONTACT_NAME), <<"2">>)
        x1  == Tag(<<"X">>, <<"1">>)
    IN  { <<>>, <<bd1>>, <<bd1, bd2>>, <<x1, cn1>>, <<x1, bd1, cn1>>,
          <<cn1, cn2, x1>>, <<bd2, x1, bd1>> }

InitFiles == { write_tag_file(t) : t \in InitTagLists }

Capacities == {0, 16}

TagAlphabet == { "a", " ", TAB, CR, LF }

LineAlphabet == { "a", ":", " ", TAB, CR, LF }

ExampleLineGood ==
    LABEL_BAGGING_DATE \o <<":", " ", "2","0","2","4","-","0","1","-","0","1">>

ExampleLineNoSpace ==
    LABEL_BAGGING_DATE \o <<":", "2","0","2","4","-","0","1","-","0","1">>

Lines == Strings(LineAlphabet, MaxLineLen) \cup {ExampleLineGood, ExampleLineNoSpace}

FileLabels == { l \in Strings({"a", ":"}, MaxFileLabelLen) : validate_label(l).ok }

FileValues == Strings({"a", " "}, MaxFileValueLen)

FileTagLists ==
    SeqsUpTo({ Tag(l, v) : l \in FileLabels, v \in FileValues }, MaxFileTags)

DiskLines ==
    { <<"a", ":", " ", "a">>, <<"a">>, <<"a", ":", "a">>,
      <<" ", "a", ":", " ", "a">>, <<"a", ":", " ", CR, "a">>, <<XFF>>, <<>> }

DiskFiles ==
    { [exists |-> TRUE,
       bytes |-> concat([i \in 1..Len(ls) |-> ls[i] \o <<LF>>], 1)] :
      ls \in SeqsUpTo(DiskLines, MaxFileLines) }

TagPath == "bag/bag-info.txt"

VersionStrings == { <<"1",".","0">>, <<"2",".","0">>, <<"a">> }

EncodingStrings == { UTF_8, lower(UTF_8) }

DeclTags ==
    { Tag(LABEL_BAGIT_VERSION, v) : v \in VersionStrings }
    \cup { Tag(lower(LABEL_BAGIT_VERSION), <<"1", ".", "0">>) }
    \cup { Tag(LABEL_FILE_ENCODING, v) : v \in EncodingStrings }
    \cup { Tag(lower(LABEL_FILE_ENCODING), UTF_8) }

DeclTagLists == SeqsUpTo(DeclTags, MaxDeclTags)

DeclVersions == { BagItVersion_new(a, b) : a \in 0..2, b \in 0..1 }

DeclEncodings == { UTF_8, lower(UTF_8), <<"a", LF>> }

\* --------------------------------------------------- BagInfo: operations

\* one add call `op(label, value)` whose code is r: the list it leaves and
\* the Result it returns
Add(op, label, value, r) ==
    /\ calls < MaxCalls
    /\ calls' = calls + 1
    /\ tags' = r.tags
    /\ last' = [op |-> op, label |-> label, value |-> value, result |-> r.res]
    /\ before' = IF /\ op = "add_tag"
                    /\ last.op = "add_tag"
                    /\ last.result.ok
                    /\ eq_ignore_ascii_case(last.label, label)
                 THEN last
                 ELSE NoCall
    /\ UNCHANGED <<file, decl, args>>

Call_add_tag ==
    \E label \in AddLabels, value \in Values :
        Add("add_tag", label, value, BagInfo_add_tag(tags, label, value))

Call_add_bagging_date ==
    \E value \in TypedValues :
        Add("add_bagging_date", LABEL_BAGGING_DATE, value,
            add_non_repeatable(tags, LABEL_BAGGING_DATE, value))

Call_add_payload_oxum ==
    \E value \in TypedValues :
        Add("add_payload_oxum", LABEL_PAYLOAD_OXUM, value,
            add_non_repeatable(tags, LABEL_PAYLOAD_OXUM, value))

Call_add_software_agent ==
    \E value \in TypedValues :
        Add("add_software_agent", LABEL_SOFTWARE_AGENT, value,
            add_non_repeatable(tags, LABEL_SOFTWARE_AGENT, value))

Call_add_source_organization ==
    \E value \in TypedValues :
        Add("add_source_organization", LABEL_SOURCE_ORGANIZATION, value,
            add_repeatable(tags, LABEL_SOURCE_ORGANIZATION, value))

Call_add_organization_address ==
    \E value \in TypedValues :
        Add("add_organization_address", LABEL_ORGANIZATION_ADDRESS, value,
            add_repeatable(tags, LABEL_ORGANIZATION_ADDRESS, value))

Call_add_contact_name ==
    \E value \in TypedValues :
        Add("add_contact_name", LABEL_CONTACT_NAME, value,
            add_repeatable(tags, LABEL_CONTACT_NAME, value))

Call_add_contact_phone ==
    \E value \in TypedValues :
        Add("add_contact_phone", LABEL_CONTACT_PHONE, value,
            add_repeatable(tags, LABEL_CONTACT_PHONE, value))

Call_add_contact_email ==
    \E value \in TypedValues :
        Add("add_contact_email", LABEL_CONTACT_EMAIL, value,
            add_repeatable(tags, LABEL_CONTACT_EMAIL, value))

Call_add_external_description ==
    \E value \in TypedValues :
        Add("add_external_description", LABEL_EXTERNAL_DESCRIPTION, value,
            add_repeatable(tags, LABEL_EXTERNAL_DESCRIPTION, value))

Call_add_external_identifier ==
    \E value \in TypedValues :
        Add("add_external_identifier", LABEL_EXTERNAL_IDENTIFIER, value,
            add_repeatable(tags, LABEL_EXTERNAL_IDENTIFIER, value))

Call_add_bag_size ==
    \E value \in TypedValues :
        Add("add_bag_size", LABEL_BAG_SIZE, value,
            add_non_repeatable(tags, LABEL_BAG_SIZE, value))

Call_add_bag_group_identifier ==
    \E value \in TypedValues :
        Add("add_bag_group_identifier", LABEL_BAG_GROUP_IDENTIFIER, value,
            add_non_repeatable(tags, LABEL_BAG_GROUP_IDENTIFIER, value))

Call_add_bag_count ==
    \E value \in TypedValues :
        Add("add_bag_count", LABEL_BAG_COUNT, value,
            add_non_repeatable(tags, LABEL_BAG_COUNT, value))

Call_add_internal_sender_identifier ==
    \E value \in TypedValues :
        Add("add_internal_sender_identifier", LABEL_INTERNAL_SENDER_IDENTIFIER,
            value,
            add_repeatable(tags, LABEL_INTERNAL_SENDER_IDENTIFIER, value))

Call_add_internal_sender_description ==
    \E value \in TypedValues :
        Add("add_internal_sender_description", LABEL_INTERNAL_SENDER_DESCRIPTION,
            value,
            add_repeatable(tags, LABEL_INTERNAL_SENDER_DESCRIPTION, value))

Call_add_bagit_profile_identifier ==
    \E value \in TypedValues :
        Add("add_bagit_profile_identifier", LABEL_BAGIT_PROFILE_IDENTIFIER,
            value,
            add_repeatable(tags, LABEL_BAGIT_PROFILE_IDENTIFIER, value))

\* get_tag / get_tags borrow the BagInfo immutably: the list stays as it is
Call_get_tag ==
    \E label \in LookupLabels :
        /\ last' = [op |-> "get_tag", label |-> label,
                    result |-> BagInfo_get_tag(tags, label)]
        /\ before' = NoCall
        /\ calls < MaxCalls
        /\ calls' = calls + 1
        /\ UNCHANGED <<tags, file, decl, args>>

Call_get_tags ==
    \E label \in LookupLabels :
        /\ last' = [op |-> "get_tags", label |-> label,
                    result |-> BagInfo_get_tags(tags, label)]
        /\ before' = NoCall
        /\ calls < MaxCalls
        /\ calls' = calls + 1
        /\ UNCHANGED <<tags, file, decl, args>>

Init ==
    /\ before = NoCall
    /\ file = NoFile
    /\ decl = NoDecl
    /\ args = NoCall
    /\ calls = 0
    /\ \/ tags = BagInfo_new /\ last = [op |-> "new"]
       \/ \E c \in Capacities :
              tags = BagInfo_with_capacity(c) /\ last = [op |-> "with_capacity"]
       \/ \E t \in InitTagLists :
              tags = BagInfo_with_tags(t) /\ last = [op |-> "with_tags"]
       \/ \E f \in InitFiles :
              /\ read_bag_info(f).ok
              /\ tags = read_bag_info(f).val
              /\ last = [op |-> "read_bag_info"]

Next ==
    \/ Call_add_tag
    \/ Call_add_bagging_date
    \/ Call_add_payload_oxum
    \/ Call_add_software_agent
    \/ Call_add_source_organization
    \/ Call_add_organization_address
    \/ Call_add_contact_name
    \/ Call_add_contact_phone
    \/ Call_add_contact_email
    \/ Call_add_external_description
    \/ Call_add_external_identifier
    \/ Call_add_bag_size
    \/ Call_add_bag_group_identifier
    \/ Call_add_bag_count
    \/ Call_add_internal_sender_identifier
    \/ Call_add_internal_sender_description
    \/ Call_add_bagit_profile_identifier
    \/ Call_get_tag
    \/ Call_get_tags

Spec == Init /\ [][Next]_vars

\* ------------------------------------------- Tag and line parsing: calls

TagCalls ==
    { [op |-> "Tag_new", label |-> label, value |-> value] :
        label \in Strings(TagAlphabet, MaxLabelLen),
        value \in Strings(TagAlphabet, MaxValueLen) }
    \cup { [op |-> "parse_tag_line", line |-> line] : line \in Lines }

Call_Tag_new ==
    /\ args.op = "Tag_new"
    /\ last' = [op |-> "Tag_new", label |-> args.label, value |-> args.value,
                result |-> Tag_new(args.label, args.value)]
    /\ UNCHANGED <<tags, before, file, decl, args, calls>>

Call_parse_tag_line ==
    /\ args.op = "parse_tag_line"
    /\ last' = [op |-> "parse_tag_line", line |-> args.line,
                result |-> parse_tag_line(args.line)]
    /\ UNCHANGED <<tags, before, file, decl, args, calls>>

InitTag ==
    /\ tags = TagList_new
    /\ last = NoCall
    /\ before = NoCall
    /\ file = NoFile
    /\ decl = NoDecl
    /\ args \in TagCalls
    /\ calls = 0

NextTag == Call_Tag_new \/ Call_parse_tag_line

SpecTag == InitTag /\ [][NextTag]_vars

\* ------------------------------------------------- tag files: operations

\* write_tag_file(&tags, path) for the TagList at hand
Call_write_tag_file ==
    /\ file' = write_tag_file(tags)
    /\ last' = [op |-> "write_tag_file", path |-> TagPath, result |-> Ok(Unit)]
    /\ UNCHANGED <<tags, before, decl, args, calls>>

Call_read_tag_file ==
    /\ last' = [op |-> "read_tag_file", path |-> TagPath,
                result |-> read_tag_file(TagPath, file).res,
                parsed |-> read_tag_file(TagPath, file).parsed]
    /\ UNCHANGED <<tags, before, file, decl, args, calls>>

InitFile ==
    /\ args = NoCall
    /\ calls = 0
    /\ last = NoCall
    /\ before = NoCall
    /\ decl = NoDecl
    /\ \/ tags \in FileTagLists /\ file = NoFile
       \/ tags = TagList_new /\ file \in DiskFiles

NextFile == Call_write_tag_file \/ Call_read_tag_file

SpecFile == InitFile /\ [][NextFile]_vars

\* ------------------------------------------- BagDeclaration: operations

\* a constructor call: the object it returns replaces the one at hand
Construct(call, r) ==
    /\ last' = call
    /\ decl' = IF r.ok THEN r.val ELSE decl
    /\ before' = IF r.ok THEN call ELSE before
    /\ UNCHANGED <<tags, file, args, calls>>

DeclCalls ==
    { [op |-> "new"], [op |-> "default"] }
    \cup { [op |-> "with_values", version |-> version, encoding |-> encoding] :
             version \in DeclVersions, encoding \in DeclEncodings }
    \cup { [op |-> "from_tags", list |-> list] : list \in DeclTagLists }
    \cup { [op |-> "read_bag_declaration", bagit_txt |-> write_tag_file(list)] :
             list \in DeclTagLists }

Call_BagDeclaration_new ==
    /\ args.op = "new"
    /\ Construct([op |-> "new", result |-> Ok(BagDeclaration_new)],
                 Ok(BagDeclaration_new))

Call_BagDeclaration_default ==
    /\ args.op = "default"
    /\ Construct([op |-> "default", result |-> Ok(BagDeclaration_default)],
                 Ok(BagDeclaration_default))

Call_with_values ==
    /\ args.op = "with_values"
    /\ Construct([op |-> "with_values", version |-> args.version,
                  encoding |-> args.encoding,
                  result |-> BagDeclaration_with_values(args.version,
                                                        args.encoding)],
                 BagDeclaration_with_values(args.version, args.encoding))

Call_from_tags ==
    /\ args.op = "from_tags"
    /\ Construct([op |-> "from_tags", list |-> args.list,
                  result |-> BagDeclaration_try_from(args.list)],
                 BagDeclaration_try_from(args.list))

Call_read_bag_declaration ==
    /\ args.op = "read_bag_declaration"
    /\ Construct([op |-> "read_bag_declaration", bagit_txt |-> args.bagit_txt,
                  result |-> read_bag_declaration(args.bagit_txt)],
                 read_bag_declaration(args.bagit_txt))

Call_to_tags ==
    /\ last' = [op |-> "to_tags", result |-> BagDeclaration_to_tags(decl)]
    /\ UNCHANGED <<tags, before, file, decl, args, calls>>

InitDecl ==
    /\ tags = TagList_new
    /\ file = NoFile
    /\ last = [op |-> "new", result |-> Ok(BagDeclaration_new)]
    /\ before = [op |-> "new", result |-> Ok(BagDeclaration_new)]
    /\ decl = BagDeclaration_new
    /\ args \in DeclCalls
    /\ calls = 0

NextDecl ==
    \/ Call_BagDeclaration_new
    \/ Call_BagDeclaration_default
    \/ Call_with_values
    \/ Call_from_tags
    \/ Call_read_bag_declaration
    \/ Call_to_tags

SpecDecl == InitDecl /\ [][NextDecl]_vars

\* ---------------------------------------------------- vocabulary of claims

Whitespace == { " ", TAB }

\* labels are equal up to ASCII letter case
SameLabel(a, b) == lower(a) = lower(b)

NonRepeatableLabels ==
    { LABEL_BAGGING_DATE, LABEL_PAYLOAD_OXUM, LABEL_SOFTWARE_AGENT,
      LABEL_BAG_SIZE, LABEL_BAG_GROUP_IDENTIFIER, LABEL_BAG_COUNT }

IsNonRepeatable(label) == \E l \in NonRepeatableLabels : SameLabel(label, l)

\* positions of the tags of list whose label matches
MatchIdx(list, label) == { i \in 1..Len(list) : SameLabel(list[i].label, label) }

\* the k-th smallest element of the set of numbers S
Kth(S, k) == CHOOSE i \in S : Cardinality({ j \in S : j < i }) = k - 1

\* the tags of list with a different label, in list order
Others(list, label) == SelectSeq(list, LAMBDA t : ~SameLabel(t.label, label))

EdgeWhitespace(s) ==
    Len(s) > 0 /\ (s[1] \in Whitespace \/ s[Len(s)] \in Whitespace)

HasCRLF(s) == \E i \in 1..Len(s) : s[i] \in {CR, LF}

ValidTag(label, value) ==
    ~EdgeWhitespace(label) /\ ~HasCRLF(label) /\ ~HasCRLF(value)

IsError(result, type) == ~result.ok /\ result.err.type = type

\* position of the first colon of line, 0 if it has none
FirstColon(line) ==
    IF \E i \in 1..Len(line) : line[i] = ":"
    THEN CHOOSE i \in 1..Len(line) :
             line[i] = ":" /\ \A j \in 1..(i - 1) : line[j] # ":"
    ELSE 0

\* no colon, or no space-or-tab right after the first colon
Malformed(line) ==
    \/ FirstColon(line) = 0
    \/ FirstColon(line) = Len(line)
    \/ line[FirstColon(line) + 1] \notin Whitespace

LabelPart(line) == SubSeq(line, 1, FirstColon(line) - 1)

ValuePart(line) == SubSeq(line, FirstColon(line) + 2, Len(line))

\* ---------------------------------------------------------------- claims

\* C1 (SpecFile): round trip.  Reading back the file that write_tag_file
\* wrote for a TagList of valid tags succeeds and yields the same tags in the
\* same order.  Stated as claimed; the code breaks it for a label that
\* holds a colon.
C1_RoundTrip ==
    (last.op = "read_tag_file" /\ file = write_tag_file(tags))
        => last.result = Ok(tags)

\* C2 (Spec): in every state of a BagInfo, however constructed, each
\* non-repeatable reserved label matches at most one tag.  Stated as
\* claimed; with_tags and read_bag_info break it.
C2_AtMostOnePerNonRepeatable ==
    \A l \in NonRepeatableLabels : Cardinality(MatchIdx(tags, l)) <= 1

\* C3 (Spec): every add_tag call on a non-repeatable label with a valid
\* value, in particular the second of two such calls on the same label in
\* any letter case, succeeds and leaves exactly one tag matching the label:
\* the last tag of the list, holding the value of this call; the tags with
\* another label stay, in their order.
C3_SecondNonRepeatableAddWins ==
    [][ ( /\ calls' = calls + 1
          /\ last'.op = "add_tag"
          /\ IsNonRepeatable(last'.label)
          /\ ~HasCRLF(last'.value) )
        => ( /\ last'.result.ok
             /\ MatchIdx(tags', last'.label) = { Len(tags') }
             /\ tags'[Len(tags')] = Tag(last'.label, last'.value)
             /\ Others(tags', last'.label) = Others(tags, last'.label) ) ]_vars

C3_Witness ==
    /\ last.op = "add_tag"
    /\ before.op = "add_tag"
    /\ IsNonRepeatable(last.label)
    /\ before.label # last.label
    /\ before.value # last.value
    /\ last.result.ok
    /\ Len(Others(tags, last.label)) >= 2

\* C4 (Spec): a successful add_tag on a label that is repeatable or not
\* reserved appends exactly one tag and removes nothing; after two such
\* calls in a row on the same label get_tags ends with the two tags added,
\* in the order they were added.
C4_RepeatableAddAppends ==
    [][ ( /\ calls' = calls + 1
          /\ last'.op = "add_tag"
          /\ ~IsNonRepeatable(last'.label)
          /\ last'.result.ok )
        => ( /\ tags' = Append(tags, Tag(last'.label, last'.value))
             /\ before'.op = "add_tag" =>
                   LET g == BagInfo_get_tags(tags', last'.label)
                   IN  /\ Len(g) >= 2
                       /\ g[Len(g) - 1] = Tag(before'.label, before'.value)
                       /\ g[Len(g)] = Tag(last'.label, last'.value) ) ]_vars

C4_Witness ==
    /\ last.op = "add_tag"
    /\ before.op = "add_tag"
    /\ last.label = <<"X">>
    /\ last.result.ok
    /\ Len(BagInfo_get_tags(tags, <<"X">>)) = 2

\* C5 (SpecTag), as amended: Tag::new(label, value) fails with InvalidTag
\* exactly when the label starts or ends with a space or tab, the label
\* holds CR or LF, or the value holds CR or LF.
C5_InvalidTagIff ==
    last.op = "Tag_new" =>
        ( IsError(last.result, "InvalidTag")
            <=> ( \/ EdgeWhitespace(last.label)
                  \/ HasCRLF(last.label)
                  \/ HasCRLF(last.value) ) )

C5_Witness ==
    /\ last.op = "Tag_new"
    /\ IsError(last.result, "InvalidTag")
    /\ EdgeWhitespace(last.label)
    /\ ~HasCRLF(last.label)
    /\ ~HasCRLF(last.value)

\* C5 as claimed: for any value, InvalidTag exactly when the label has
\* leading or trailing whitespace or holds CR or LF.
C5_AsClaimed ==
    last.op = "Tag_new" =>
        ( IsError(last.result, "InvalidTag")
            <=> (EdgeWhitespace(last.label) \/ HasCRLF(last.label)) )

\* C6 (SpecTag), as amended: parse_tag_line fails with the malformed-line
\* error exactly when the line has no colon or no space-or-tab right after
\* its first colon; otherwise the label is the text before the first colon
\* and the value the text after the separator, and the result is that tag
\* when label and value satisfy the Tag invariants and InvalidTag when not.
C6_ParseTagLine ==
    last.op = "parse_tag_line" =>
        IF Malformed(last.line)
        THEN IsError(last.result, "InvalidTagLine")
        ELSE IF ValidTag(LabelPart(last.line), ValuePart(last.line))
        THEN last.result = Ok(Tag(LabelPart(last.line), ValuePart(last.line)))
        ELSE IsError(last.result, "InvalidTag")

C6_Witness ==
    /\ last.op = "parse_tag_line"
    /\ last.line = ExampleLineGood
    /\ last.result.ok
    /\ last.result.val.label = LABEL_BAGGING_DATE

\* C6 as claimed: malformed-line error when there is no colon or no
\* separator, otherwise the parse yields the label and value.
C6_AsClaimed ==
    last.op = "parse_tag_line" =>
        IF Malformed(last.line)
        THEN IsError(last.result, "InvalidTagLine")
        ELSE last.result = Ok(Tag(LabelPart(last.line), ValuePart(last.line)))

\* a line-reader item on which read_tag_file cannot go on
FailingItem(item) == ~item.ok \/ ~parse_tag_line(item.val).ok

\* 1-based number of the first failing line of the file, 0 if none fails
FirstFailingLine(f) ==
    LET items == TagLineReader(f.bytes, 1)
    IN  IF \E i \in 1..Len(items) : FailingItem(items[i])
        THEN CHOOSE i \in 1..Len(items) :
                 /\ FailingItem(items[i])
                 /\ \A j \in 1..(i - 1) : ~FailingItem(items[j])
        ELSE 0

\* C7 (SpecFile): a failing read of an existing tag file parses no line
\* after the first failing one, and the error returned carries the path and
\* the 1-based number of that line.  Stated as claimed; an error of the line
\* reader is passed on without them.
C7_FailureCarriesPathAndLine ==
    (last.op = "read_tag_file" /\ file.exists /\ ~last.result.ok)
        => /\ last.parsed <= FirstFailingLine(file)
           /\ last.result.err.type = "InvalidTagLineWithRef"
           /\ last.result.err.path = last.path
           /\ last.result.err.num = FirstFailingLine(file)

HasLabel(list, label) == MatchIdx(list, label) # {}

\* value of the first tag of list whose label matches
FirstValue(list, label) == list[Kth(MatchIdx(list, label), 1)].value

\* C8 (SpecDecl): from_tags gives MissingTag naming a missing label when
\* BagIt-Version or Tag-File-Character-Encoding is missing, else
\* UnsupportedVersion when the version is not 1.0, else UnsupportedEncoding
\* when the encoding is not UTF-8, else the declaration 1.0 / UTF-8.  Stated
\* as claimed; the code parses the version before it looks for the encoding.
C8_FromTagsOutcome ==
    last.op = "from_tags" =>
        LET list == last.list
            r == last.result
            missing == { l \in {LABEL_BAGIT_VERSION, LABEL_FILE_ENCODING} :
                           ~HasLabel(list, l) }
        IN  IF missing # {}
            THEN IsError(r, "MissingTag") /\ r.err.tag \in missing
            ELSE IF FirstValue(list, LABEL_BAGIT_VERSION) # <<"1", ".", "0">>
            THEN IsError(r, "UnsupportedVersion")
            ELSE IF FirstValue(list, LABEL_FILE_ENCODING) # UTF_8
            THEN IsError(r, "UnsupportedEncoding")
            ELSE r = Ok([version |-> BAGIT_1_0, encoding |-> UTF_8])

\* C9 (SpecDecl): to_tags of any declaration obtained from new, default,
\* with_values or from_tags does not panic and returns the two tags
\* BagIt-Version: 1.0 and Tag-File-Character-Encoding: UTF-8 in that order,
\* from which from_tags rebuilds the declaration.
C9_ToTags ==
    last.op = "to_tags" =>
        /\ ~last.result.panic
        /\ last.result.val = << Tag(LABEL_BAGIT_VERSION, <<"1", ".", "0">>),
                               Tag(LABEL_FILE_ENCODING, UTF_8) >>
        /\ BagDeclaration_try_from(last.result.val) = Ok(decl)

C9_Witness ==
    /\ last.op = "to_tags"
    /\ before.op = "from_tags"
    /\ ~last.result.panic

\* C10 (Spec): get_tag returns the first tag in list order whose label
\* matches up to ASCII letter case, None exactly when none matches;
\* get_tags returns all matching tags, each once, in list order; neither
\* changes the list.
C10_Lookups ==
    [][ /\ (calls' = calls + 1 /\ last'.op = "get_tag") =>
            /\ tags' = tags
            /\ IF MatchIdx(tags, last'.label) = {}
               THEN last'.result = None
               ELSE last'.result =
                        Some(tags[Kth(MatchIdx(tags, last'.label), 1)])
        /\ (calls' = calls + 1 /\ last'.op = "get_tags") =>
            /\ tags' = tags
            /\ Len(last'.result) = Cardinality(MatchIdx(tags, last'.label))
            /\ \A k \in 1..Len(last'.result) :
                   last'.result[k] = tags[Kth(MatchIdx(tags, last'.label), k)]
      ]_vars

C10_Witness ==
    /\ last.op = "get_tags"
    /\ Len(last.result) = 2
    /\ last.result[1].label # last.result[2].label
    /\ Len(tags) = 3

\* C11 (Spec): an add_tag or typed add_* call that returns InvalidTag
\* leaves the tag list as it was before the call: the same tags in the
\* same order.
C11_FailedAddLeavesTagsUnchanged ==
    [][ ( /\ calls' = calls + 1
          /\ last'.op \notin {"get_tag", "get_tags"}
          /\ IsError(last'.result, "InvalidTag") )
        => tags' = tags ]_vars

====
